---- MODULE Spec2Model ----
(***************************************************************************)
(* Model of the Mischief capture engine (src/Mischief.js) and of the WACZ  *)
(* exporter (src/exporters/mischiefToWacz.js).                             *)
(*                                                                         *)
(* JavaScript runs every callback to completion, so one action is one      *)
(* synchronous stretch of code: from one `await` of capture() to the next, *)
(* or one whole call of networkInterception().                             *)
(***************************************************************************)
EXTENDS Integers, Sequences, FiniteSets, TLC

(***************************************************************************)
(* Bounds of the model.                                                    *)
(***************************************************************************)
\* Number of chunks the proxy delivers in one run.
MaxChunks == 4

\* Session ids the proxy tags chunks with.
Sessions == {"sess-1", "sess-2"}

\* Longest chunk the proxy delivers.
MaxChunkLen == 2

\* Values of options.maxSize.
MaxSizes == {3}

\* Number of chunks the proxy delivers in a run that is also exported.
MaxExportChunks == 2

\* Number of milliseconds the clock advances in a run that is also exported.
MaxClock == 1

\* Number of chunks the proxy delivers on one connection that is kept alive,
\* in a run that is also exported.
MaxKeepAliveChunks == 3

(***************************************************************************)
(* Mischief.states                                                         *)
(***************************************************************************)
INIT == 0
SETUP == 1
CAPTURE == 2
TEARDOWN == 3
COMPLETE == 4
PARTIAL == 5
ERROR == 6

\* A property that was never assigned (JavaScript `undefined`).
Undefined == <<-1>>

\* The bytes of a raw buffer; an unassigned buffer holds none.
Bytes(raw) == IF raw = Undefined THEN <<>> ELSE raw

VARIABLES
  state,         \* this.state
  exchanges,     \* this.exchanges
  logs,          \* this.logs
  totalSize,     \* this.totalSize
  options,       \* this.options
  browser,       \* this.#browser: "none", "open", "closing", "closed"
  proxy,         \* the ProxyServer of setup(): "none", "listening", "closed"
  pc,            \* where capture() is: "init", "setup", "step", "teardown", "done", "failed"
  i,             \* the loop variable of capture()
  returned,      \* what capture() returned (Undefined until it returns)
  sent,          \* history: per session, the <<type, data>> pairs delivered so far
  stepsStarted,  \* history: the indexes of the steps whose fn was called, in call order
  stepOutcomes,  \* history: how each finished step ended, "ok" or "fail"
  closeCalls,    \* history: number of calls of this.#browser.close()
  teardownCalls, \* history: number of calls of teardown(), by caller
  breachAt,      \* history: the store when a chunk first reached maxSize in CAPTURE
  forwarded,     \* what the last call of networkInterception returned to the proxy
  clock,         \* the time new Date() reads, in milliseconds
  generatedExchanges, \* capture.generatedExchanges, as the exporter reads it
  provenanceInfo,     \* capture.provenanceInfo, as the exporter reads it
  wacz           \* the call of mischiefToWacz(): its progress and its result

vars == <<state, exchanges, logs, totalSize, options, browser, proxy, pc, i,
          returned, sent, stepsStarted, stepOutcomes, closeCalls, teardownCalls,
          breachAt, forwarded, clock, generatedExchanges, provenanceInfo, wacz>>

\* What the capture engine never writes.
exportVars == <<clock, generatedExchanges, provenanceInfo, wacz>>

(***************************************************************************)
(* Helpers                                                                 *)
(***************************************************************************)
RECURSIVE SumLen(_)
SumLen(s) == IF s = <<>> THEN 0 ELSE Len(Head(s)[2]) + SumLen(Tail(s))

RECURSIVE SumOver(_, _)
SumOver(f, S) ==
  IF S = {} THEN 0
  ELSE LET x == CHOOSE y \in S : TRUE IN f[x] + SumOver(f, S \ {x})

\* Number of chunks delivered so far.
Delivered == SumOver([s \in Sessions |-> Len(sent[s])], Sessions)

\* The n-th chunk the proxy delivers: its length runs through 1..MaxChunkLen
\* again and again, and its bytes are n, so that no two chunks are equal.
Chunk(n) == [k \in 1..(1 + ((n - 1) % MaxChunkLen)) |-> n]

\* A log entry (MischiefLog): message kind, the step it is about, warning flag.
Log(msg, step, warn) == [msg |-> msg, step |-> step, warn |-> warn]

addToLogs(l, msg, step, warn) == Append(l, Log(msg, step, warn))

\* new MischiefExchange({id: id}), constructed at time `now`
NewExchange(id, now) ==
  [id |-> id, date |-> now, requestRaw |-> Undefined, responseRaw |-> Undefined,
   response |-> FALSE]

\* The exchange the screenshot step pushes: no id, a parsed response, no raw bytes.
ScreenshotExchange(now) ==
  [id |-> "undefined", date |-> now, requestRaw |-> Undefined,
   responseRaw |-> Undefined, response |-> TRUE]

(***************************************************************************)
(* capture(): the pipeline of steps the options select.                    *)
(***************************************************************************)
Steps(o) ==
  <<"initial load">>
  \o (IF o.grabSecondaryResources \/ o.autoPlayMedia \/ o.runSiteSpecificBehaviors
      THEN <<"browser scripts">> ELSE <<>>)
  \o (IF o.autoScroll THEN <<"auto-scroll">> ELSE <<>>)
  \o (IF o.screenshot THEN <<"screenshot">> ELSE <<>>)
  \o <<"network idle">>

\* The option records a run is started with: the pipeline of two steps and
\* the one of three steps, with the screenshot step.
OptionChoices ==
  [grabSecondaryResources : {FALSE}, autoPlayMedia : {FALSE},
   runSiteSpecificBehaviors : {FALSE}, autoScroll : {FALSE},
   screenshot : BOOLEAN, maxSize : MaxSizes, provenanceSummary : {FALSE}]

(***************************************************************************)
(* getOrInitExchange(id, type)                                             *)
(***************************************************************************)
\* The predicate of findLast: same session, and for a request no response yet
\* (ex.responseRaw is falsy only while it was never assigned).
ExchangeMatchesByType(ex, id, type) ==
  type = "response" \/ ex.responseRaw = Undefined

ExchangeMatchesById(ex, id, type) ==
  ex.id = id

ExchangeMatches(ex, id, type) ==
  ex.id = id /\ (type = "response" \/ ex.responseRaw = Undefined)

\* Array.prototype.find: index of the first match, 0 when there is none.
findFirst(exs, id, type) ==
  LET hits == {k \in 1..Len(exs) : ExchangeMatches(exs[k], id, type)}
  IN IF hits = {} THEN 0 ELSE CHOOSE k \in hits : \A m \in hits : m >= k

\* Array.prototype.findLast: index of the last match, 0 when there is none.
findLast(exs, id, type) ==
  LET hits == {k \in 1..Len(exs) : ExchangeMatches(exs[k], id, type)}
  IN IF hits = {} THEN 0 ELSE CHOOSE k \in hits : \A m \in hits : m <= k

\* The store after the call and the index of the exchange it returns.
getOrInitExchangeUnshift(exs, id, type, now) ==
  LET k == findLast(exs, id, type)
  IN IF k # 0 THEN [exchanges |-> exs, index |-> k]
     ELSE [exchanges |-> <<NewExchange(id, now)>> \o exs, index |-> 1]

getOrInitExchange(exs, id, type, now) ==
  LET k == findLast(exs, id, type)
  IN IF k # 0 THEN [exchanges |-> exs, index |-> k]
     ELSE [exchanges |-> Append(exs, NewExchange(id, now)), index |-> Len(exs) + 1]

(***************************************************************************)
(* teardown(): the synchronous part, up to `await this.#browser.close()`.  *)
(* c is the controller: state, logs, browser, closeCalls; pending tells    *)
(* whether the promise returned waits for the browser to close.            *)
(***************************************************************************)
teardownUnguarded(c) ==
  [c EXCEPT !.state = TEARDOWN,
            !.logs = addToLogs(@, "Closing browser and proxy server.", 0, FALSE),
            !.browser = "closing",
            !.closeCalls = @ + 1,
            !.pending = TRUE]

teardown(c) ==
  IF c.state = TEARDOWN THEN [c EXCEPT !.pending = FALSE]
  ELSE [c EXCEPT !.state = TEARDOWN,
                 !.logs = addToLogs(@, "Closing browser and proxy server.", 0, FALSE),
                 !.browser = "closing",
                 !.closeCalls = @ + 1,
                 !.pending = TRUE]

Controller ==
  [state |-> state, logs |-> logs, browser |-> browser, closeCalls |-> closeCalls,
   pending |-> FALSE]

(***************************************************************************)
(* networkInterception(type, data, session)                                *)
(***************************************************************************)
\* ex[prop] = ex[prop] ? Buffer.concat([ex[prop], data]) : data
AppendRawReplaces(raw, data) == data

AppendRawPrepends(raw, data) == IF raw # Undefined THEN data \o raw ELSE data

AppendRaw(raw, data) == IF raw # Undefined THEN raw \o data ELSE data

\* this.totalSize += data.byteLength
AddSizeOverwrites(total, data) == Len(data)

AddSize(total, data) == total + Len(data)

\* The condition under which the assembler ends the capture.
BudgetReachedAnyState(total, maxSize, st) == total >= maxSize

BudgetReachedStrict(total, maxSize, st) == total > maxSize /\ st = CAPTURE

BudgetReached(total, maxSize, st) == total >= maxSize /\ st = CAPTURE

\* The store after the exchange is selected and the chunk appended to it.
Collate(exs, type, data, id, now) ==
  LET got == getOrInitExchange(exs, id, type, now)
      ex == got.exchanges[got.index]
      ex2 == IF type = "request"
             THEN [ex EXCEPT !.requestRaw = AppendRaw(@, data)]
             ELSE [ex EXCEPT !.responseRaw = AppendRaw(@, data)]
  IN [got.exchanges EXCEPT ![got.index] = ex2]

networkInterception(type, data, id) ==
  LET total == AddSize(totalSize, data)
      reached == BudgetReached(total, options.maxSize, state)
      c1 == IF reached
            THEN [Controller EXCEPT
                    !.logs = addToLogs(@, "Max size reached. Ending further capture.", 0, FALSE)]
            ELSE Controller
      c2 == IF reached THEN teardown(c1) ELSE c1
  IN /\ exchanges' = Collate(exchanges, type, data, id, clock)
     /\ totalSize' = total
     /\ state' = c2.state
     /\ logs' = c2.logs
     /\ browser' = c2.browser
     /\ closeCalls' = c2.closeCalls
     /\ teardownCalls' = IF reached
                         THEN [teardownCalls EXCEPT !.assembler = @ + 1]
                         ELSE teardownCalls
     /\ sent' = [sent EXCEPT ![id] = Append(@, <<type, data>>)]
     /\ breachAt' = IF breachAt = <<>> /\ state = CAPTURE /\ total >= options.maxSize
                    THEN <<[exchanges |-> exchanges', started |-> Len(stepsStarted)]>>
                    ELSE breachAt
     /\ forwarded' = data

\* The proxy delivers a chunk, one of at most `most`: it can, from the moment
\* it listens, and data of connections still open keeps arriving after the
\* server was closed.
Deliver(most) ==
  /\ proxy # "none"
  /\ Delivered < most
  /\ \E id \in Sessions, type \in {"request", "response"} :
       networkInterception(type, Chunk(Delivered + 1), id)
  /\ UNCHANGED <<options, proxy, pc, i, returned, stepsStarted, stepOutcomes>>
  /\ UNCHANGED exportVars

Ingest == Deliver(MaxChunks)

IngestExported == Deliver(MaxExportChunks)

\* The proxy delivers a chunk of the one connection the browser keeps alive.
IngestKeepAlive ==
  /\ proxy # "none"
  /\ Delivered < MaxKeepAliveChunks
  /\ \E type \in {"request", "response"} :
       networkInterception(type, Chunk(Delivered + 1), "sess-1")
  /\ UNCHANGED <<options, proxy, pc, i, returned, stepsStarted, stepOutcomes>>
  /\ UNCHANGED exportVars

(***************************************************************************)
(* capture()                                                               *)
(***************************************************************************)
\* capture() up to the first await of setup(): the proxy listens, the browser
\* is being launched.
CaptureCall ==
  /\ pc = "init"
  /\ pc' = "setup"
  /\ state' = SETUP
  /\ proxy' = "listening"
  /\ UNCHANGED <<exchanges, logs, totalSize, options, browser, i, returned, sent,
                 stepsStarted, stepOutcomes, closeCalls, teardownCalls, breachAt, forwarded>>
  /\ UNCHANGED exportVars

StepLog(l, k, n, name) == addToLogs(l, "STEP", k + 1, FALSE)

\* setup() resolved: log, state CAPTURE, and the first step is called.
SetupDone ==
  /\ pc = "setup"
  /\ pc' = "step"
  /\ browser' = "open"
  /\ state' = CAPTURE
  /\ i' = 0
  /\ logs' = StepLog(addToLogs(logs, "Starting capture", 0, FALSE), 0,
                     Len(Steps(options)), Steps(options)[1])
  /\ stepsStarted' = Append(stepsStarted, 0)
  /\ UNCHANGED <<exchanges, totalSize, options, proxy, returned, sent, stepOutcomes,
                 closeCalls, teardownCalls, breachAt, forwarded>>
  /\ UNCHANGED exportVars

\* chromium.launch, newContext or newPage rejected: capture() rejects too.
SetupFailed ==
  /\ pc = "setup"
  /\ pc' = "failed"
  /\ \E b \in {"none", "open"} : browser' = b
  /\ UNCHANGED <<state, exchanges, logs, totalSize, options, proxy, i, returned, sent,
                 stepsStarted, stepOutcomes, closeCalls, teardownCalls, breachAt, forwarded>>
  /\ UNCHANGED exportVars

\* while (this.state == CAPTURE && i++ < steps.length - 1)
LoopContinuesPreIncrement(st, k, n) == st = CAPTURE /\ k + 1 < n - 1

LoopContinues(st, k, n) == st = CAPTURE /\ k < n - 1

\* return this.state = Mischief.states.COMPLETE
FinalStatePartial == PARTIAL

FinalState == COMPLETE

\* The awaited step.fn(page) settled: the catch block, the loop condition, and
\* either the call of the next step or teardown and, when teardown has nothing
\* to wait for, the return.
StepSettled(outcome) ==
  /\ pc = "step"
  /\ LET steps == Steps(options)
         name == steps[i + 1]
         exs == IF outcome = "ok" /\ name = "screenshot"
                THEN Append(exchanges, ScreenshotExchange(clock))
                ELSE exchanges
         l1 == IF outcome = "fail"
               THEN IF state = CAPTURE
                    THEN addToLogs(logs, "failed", i + 1, TRUE)
                    ELSE addToLogs(logs, "ended due to max size reached", i + 1, TRUE)
               ELSE logs
     IN /\ exchanges' = exs
        /\ stepOutcomes' = Append(stepOutcomes, outcome)
        /\ IF LoopContinues(state, i, Len(steps))
           THEN /\ i' = i + 1
                /\ logs' = StepLog(l1, i + 1, Len(steps), steps[i + 2])
                /\ stepsStarted' = Append(stepsStarted, i + 1)
                /\ pc' = "step"
                /\ UNCHANGED <<state, browser, closeCalls, teardownCalls, returned>>
           ELSE LET c == teardown([Controller EXCEPT !.logs = l1])
                IN /\ logs' = c.logs
                   /\ browser' = c.browser
                   /\ closeCalls' = c.closeCalls
                   /\ teardownCalls' = [teardownCalls EXCEPT !.pipeline = @ + 1]
                   /\ IF c.pending
                      THEN /\ pc' = "teardown"
                           /\ state' = c.state
                           /\ returned' = returned
                      ELSE /\ pc' = "done"
                           /\ state' = FinalState
                           /\ returned' = state'
                   /\ UNCHANGED <<i, stepsStarted>>
        /\ UNCHANGED <<totalSize, options, proxy, sent, breachAt, forwarded>>
        /\ UNCHANGED exportVars

StepSucceeded == StepSettled("ok")

StepFailed == StepSettled("fail")

\* this.#browser.close() resolved; the 'disconnected' listener closes the proxy;
\* a capture() waiting in teardown goes on to set COMPLETE and return.
BrowserClosed ==
  /\ browser = "closing"
  /\ browser' = "closed"
  /\ proxy' = "closed"
  /\ IF pc = "teardown"
     THEN /\ pc' = "done"
          /\ state' = FinalState
          /\ returned' = state'
     ELSE UNCHANGED <<pc, state, returned>>
  /\ UNCHANGED <<exchanges, logs, totalSize, options, i, sent, stepsStarted,
                 stepOutcomes, closeCalls, teardownCalls, breachAt, forwarded>>
  /\ UNCHANGED exportVars

(***************************************************************************)
(* mischiefToWacz(capture, includeRaw)                                     *)
(***************************************************************************)
captureVars == <<state, exchanges, logs, totalSize, options, browser, proxy, pc, i,
                 returned, sent, stepsStarted, stepOutcomes, closeCalls,
                 teardownCalls, breachAt, forwarded>>

\* No call of the exporter so far.
NoWacz ==
  [status |-> "none", found |-> INIT, includeRaw |-> FALSE, warc |-> <<>>,
   extras |-> Undefined, files |-> <<>>, pages |-> <<>>]

\* const validStates = [Mischief.states.PARTIAL, Mischief.states.COMPLETE]
validStatesWithTeardown == {PARTIAL, COMPLETE, TEARDOWN}

validStatesWithSetup == {PARTIAL, COMPLETE, SETUP}

validStates == {PARTIAL, COMPLETE}

\* capture.toWarc(): for every exchange, in store order, its request record and
\* its response record, holding the raw bytes.
toWarc(exs) ==
  [k \in 1..Len(exs) |->
     [id |-> exs[k].id, date |-> exs[k].date,
      request |-> Bytes(exs[k].requestRaw), response |-> Bytes(exs[k].responseRaw)]]

\* The path of a raw payload: raw/${type}_${exchange.date.toISOString()}_${exchange.id}
RawPath(type, ex) == <<"raw", type, ex.date, ex.id>>

RawOf(type, ex) == IF type = "request" THEN ex.requestRaw ELSE ex.responseRaw

\* wacz.files after the forEach over the exchanges: a later write to a path
\* replaces an earlier one.
RawFiles(exs) ==
  LET writes == {<<k, t>> \in (1..Len(exs)) \X {"request", "response"} :
                   RawOf(t, exs[k]) # Undefined}
      paths == {RawPath(w[2], exs[w[1]]) : w \in writes}
      last(p) == CHOOSE w \in writes :
                   /\ RawPath(w[2], exs[w[1]]) = p
                   /\ \A v \in writes : RawPath(v[2], exs[v[1]]) = p => v[1] <= w[1]
  IN [p \in paths |-> RawOf(last(p)[2], exs[last(p)[1]])]

\* The entry points: the first exchange, then the generated exchanges marked so.
EntryPointsUnfiltered(exs, generated) ==
  (IF Len(exs) > 0 THEN <<exs[1]>> ELSE <<>>) \o generated

EntryPoints(exs, generated) ==
  (IF Len(exs) > 0 THEN <<exs[1]>> ELSE <<>>)
  \o SelectSeq(generated, LAMBDA g : g.isEntryPoint = TRUE)

\* The call up to `await capture.toWarc()`: the state check, which throws
\* (status "error") or lets the call go on to the records; `found` keeps the
\* state the call found the capture in.
EncodeCall ==
  /\ wacz.status \in {"none", "error"}
  /\ \E includeRaw \in BOOLEAN :
       IF state \notin validStates
       THEN wacz' = [NoWacz EXCEPT !.status = "error", !.found = state]
       ELSE wacz' = [NoWacz EXCEPT !.status = "encoding", !.found = state,
                                   !.includeRaw = includeRaw,
                                   !.warc = toWarc(exchanges)]
  /\ UNCHANGED captureVars
  /\ UNCHANGED <<clock, generatedExchanges, provenanceInfo>>

\* The rest of the call: the extras, the raw payloads, the pages.
EncodeResume ==
  /\ wacz.status = "encoding"
  /\ wacz' = [wacz EXCEPT
       !.status = "done",
       !.extras = IF options.provenanceSummary /\ provenanceInfo # Undefined
                  THEN provenanceInfo ELSE Undefined,
       !.files = IF wacz.includeRaw THEN RawFiles(exchanges) ELSE <<>>,
       !.pages = EntryPoints(exchanges, generatedExchanges)]
  /\ UNCHANGED captureVars
  /\ UNCHANGED <<clock, generatedExchanges, provenanceInfo>>

\* Time passes, to the next millisecond. The program reads the clock only to
\* date a new exchange, so only the milliseconds that follow one in which an
\* exchange was dated are told apart.
Tick ==
  /\ clock < MaxClock
  /\ \E k \in 1..Len(exchanges) : exchanges[k].date = clock
  /\ clock' = clock + 1
  /\ UNCHANGED captureVars
  /\ UNCHANGED <<generatedExchanges, provenanceInfo, wacz>>

(***************************************************************************)
(* Specification                                                           *)
(***************************************************************************)
Init ==
  /\ state = INIT
  /\ exchanges = <<>>
  /\ logs = <<>>
  /\ totalSize = 0
  /\ options \in OptionChoices
  /\ browser = "none"
  /\ proxy = "none"
  /\ pc = "init"
  /\ i = 0
  /\ returned = Undefined
  /\ sent = [s \in Sessions |-> <<>>]
  /\ stepsStarted = <<>>
  /\ stepOutcomes = <<>>
  /\ closeCalls = 0
  /\ teardownCalls = [assembler |-> 0, pipeline |-> 0]
  /\ breachAt = <<>>
  /\ forwarded = Undefined
  /\ clock = 0
  /\ generatedExchanges = <<>>
  /\ provenanceInfo = Undefined
  /\ wacz = NoWacz

Next ==
  \/ CaptureCall
  \/ SetupDone
  \/ SetupFailed
  \/ StepSucceeded
  \/ StepFailed
  \/ BrowserClosed
  \/ Ingest

Spec == Init /\ [][Next]_vars

\* The promises capture() awaits settle: a step resolves or rejects (by its
\* timeout at the latest), and the browser closes.
FairSpec ==
  /\ Spec
  /\ WF_vars(StepSucceeded \/ StepFailed)
  /\ WF_vars(BrowserClosed)

\* A capture that is also exported.
NextExport ==
  \/ CaptureCall
  \/ SetupDone
  \/ SetupFailed
  \/ StepSucceeded
  \/ StepFailed
  \/ BrowserClosed
  \/ IngestExported
  \/ Tick
  \/ EncodeCall
  \/ EncodeResume

\* What a capture is exported with: no generated exchange and a provenance
\* summary, or three generated exchanges, the last two of them entry points,
\* and no provenance summary.
GeneratedChoices ==
  {[generatedExchanges |-> <<>>, provenanceSummary |-> TRUE,
    provenanceInfo |-> <<7>>],
   [generatedExchanges |-> <<[url |-> "file:///a", isEntryPoint |-> FALSE],
                             [url |-> "file:///b", isEntryPoint |-> TRUE],
                             [url |-> "file:///c", isEntryPoint |-> TRUE]>>,
    provenanceSummary |-> FALSE, provenanceInfo |-> Undefined]}

InitExport ==
  /\ state = INIT
  /\ exchanges = <<>>
  /\ logs = <<>>
  /\ totalSize = 0
  /\ \E o \in OptionChoices, g \in GeneratedChoices :
       /\ options = [o EXCEPT !.provenanceSummary = g.provenanceSummary]
       /\ generatedExchanges = g.generatedExchanges
       /\ provenanceInfo = g.provenanceInfo
  /\ browser = "none"
  /\ proxy = "none"
  /\ pc = "init"
  /\ i = 0
  /\ returned = Undefined
  /\ sent = [s \in Sessions |-> <<>>]
  /\ stepsStarted = <<>>
  /\ stepOutcomes = <<>>
  /\ closeCalls = 0
  /\ teardownCalls = [assembler |-> 0, pipeline |-> 0]
  /\ breachAt = <<>>
  /\ forwarded = Undefined
  /\ clock = 0
  /\ wacz = NoWacz

SpecExport == InitExport /\ [][NextExport]_vars

\* A capture whose browser sends every request over one connection, and
\* which is also exported.
NextKeepAlive ==
  \/ CaptureCall
  \/ SetupDone
  \/ SetupFailed
  \/ StepSucceeded
  \/ StepFailed
  \/ BrowserClosed
  \/ IngestKeepAlive
  \/ Tick
  \/ EncodeCall
  \/ EncodeResume

SpecKeepAlive == InitExport /\ [][NextKeepAlive]_vars

(***************************************************************************)
(* Properties                                                              *)
(***************************************************************************)
\* The exchanges of one session, in store order.
ForSession(id) == SelectSeq(exchanges, LAMBDA e : e.id = id)

\* Number of bytes delivered so far, over all sessions.
DeliveredBytes == SumOver([s \in Sessions |-> SumLen(sent[s])], Sessions)

\* Number of raw bytes held by a store.
RECURSIVE StoreBytes(_)
StoreBytes(exs) ==
  IF exs = <<>> THEN 0
  ELSE Len(Bytes(Head(exs).requestRaw)) + Len(Bytes(Head(exs).responseRaw))
       + StoreBytes(Tail(exs))

\* C1: after any sequence of ingest calls, in any interleaving of sessions and
\* directions and in every controller state (TEARDOWN and COMPLETE included),
\* totalSize equals the sum of the lengths of the chunks delivered so far.
C1_TotalSizeIsSumOfChunks == totalSize = DeliveredBytes

\* C1 witness: a chunk was ingested after the budget breach started teardown,
\* and the run went on to COMPLETE.
C1_Witness ==
  /\ state = COMPLETE
  /\ breachAt # <<>>
  /\ StoreBytes(exchanges) > StoreBytes(breachAt[1].exchanges)
  /\ totalSize = DeliveredBytes


\* The last element of a non-empty sequence.
Last(h) == h[Len(h)]

\* The greatest element of a non-empty set of numbers.
Max(S) == CHOOSE k \in S : \A m \in S : m <= k

\* Exchange `after` is exchange `before` with `data` appended to the bytes of
\* direction `type`, and nothing else changed.
Appended(before, after, type, data) ==
  /\ after.id = before.id
  /\ after.date = before.date
  /\ after.response = before.response
  /\ IF type = "request"
     THEN /\ Bytes(after.requestRaw) = Bytes(before.requestRaw) \o data
          /\ after.responseRaw = before.responseRaw
     ELSE /\ Bytes(after.responseRaw) = Bytes(before.responseRaw) \o data
          /\ after.requestRaw = before.requestRaw

\* What the selection rule asks of one ingest call that took the store from
\* `old` to `new`.
RoutedByRule(old, new, id, type, data) ==
  LET candidates == {k \in 1..Len(old) :
                       /\ old[k].id = id
                       /\ type = "request" => Bytes(old[k].responseRaw) = <<>>}
  IN IF candidates # {}
     THEN /\ Len(new) = Len(old)
          /\ \A k \in 1..Len(old) :
               IF k = Max(candidates)
               THEN Appended(old[k], new[k], type, data)
               ELSE new[k] = old[k]
     ELSE /\ Len(new) = Len(old) + 1
          /\ \A k \in 1..Len(old) : new[k] = old[k]
          /\ Last(new).id = id
          /\ Bytes(Last(new).requestRaw) = (IF type = "request" THEN data ELSE <<>>)
          /\ Bytes(Last(new).responseRaw) = (IF type = "response" THEN data ELSE <<>>)

\* C2: an ingest call appends its chunk to the most recently created exchange
\* of its session that, for a request, has no response bytes yet; when there
\* is none, exactly one new exchange with that id is appended at the end of
\* the store and receives the chunk; no other exchange is modified.
C2_IngestFollowsSelectionRule ==
  [][\A id \in Sessions :
       Len(sent'[id]) = Len(sent[id]) + 1 =>
         RoutedByRule(exchanges, exchanges', id, Last(sent'[id])[1],
                      Last(sent'[id])[2])]_vars

\* C2 witness: both cases of the rule happened for one session: a request
\* after a response opened a second exchange, and a later response chunk went
\* to that second exchange and not to the first.
C2_Witness ==
  \E id \in Sessions :
    /\ Len(ForSession(id)) = 2
    /\ Len(sent[id]) = 4
    /\ Last(sent[id])[1] = "response"
    /\ Bytes(ForSession(id)[2].responseRaw) = Last(sent[id])[2]
    /\ Bytes(ForSession(id)[1].responseRaw) # <<>>

\* The bytes of direction `type` among the chunks lo..hi of history h, in order.
RECURSIVE Concat(_, _, _, _)
Concat(h, lo, hi, type) ==
  IF lo > hi THEN <<>>
  ELSE (IF h[lo][1] = type THEN h[lo][2] ELSE <<>>) \o Concat(h, lo + 1, hi, type)

\* The positions of history h at which a request/response pair begins.
PairStarts(h) ==
  {n \in 1..Len(h) : h[n][1] = "request" /\ (n = 1 \/ h[n - 1][1] = "response")}

\* History h is a sequence of complete request/response pairs.
SequentialPairs(h) ==
  h # <<>> /\ h[1][1] = "request" /\ Last(h)[1] = "response"

\* The position at which the j-th pair of h begins, and the one at which it ends.
PairStart(h, j) ==
  CHOOSE n \in PairStarts(h) : Cardinality({m \in PairStarts(h) : m <= n}) = j

PairEnd(h, j) ==
  IF j = Cardinality(PairStarts(h)) THEN Len(h) ELSE PairStart(h, j + 1) - 1

\* C3: when the chunks of one session form k sequential request/response
\* pairs, the store holds exactly k exchanges with that id, the j-th holding
\* exactly the request bytes and the response bytes of pair j.
C3_SequentialPairsBecomeExchanges ==
  \A id \in Sessions :
    SequentialPairs(sent[id]) =>
      LET h == sent[id]
          k == Cardinality(PairStarts(h))
          exs == ForSession(id)
      IN /\ Len(exs) = k
         /\ \A j \in 1..k :
              /\ Bytes(exs[j].requestRaw) = Concat(h, PairStart(h, j), PairEnd(h, j), "request")
              /\ Bytes(exs[j].responseRaw) = Concat(h, PairStart(h, j), PairEnd(h, j), "response")

\* C3 witness: two sequential pairs on one session gave two exchanges, each
\* with its own request and response bytes.
C3_Witness ==
  \E id \in Sessions :
    /\ SequentialPairs(sent[id])
    /\ Cardinality(PairStarts(sent[id])) = 2
    /\ Len(ForSession(id)) = 2
    /\ ForSession(id)[1].requestRaw # ForSession(id)[2].requestRaw
    /\ ForSession(id)[1].responseRaw # ForSession(id)[2].responseRaw
    /\ \A j \in 1..2 : /\ ForSession(id)[j].requestRaw # Undefined
                       /\ ForSession(id)[j].responseRaw # Undefined

\* The store that ingesting history h of session id alone, from an empty
\* store, produces.
RECURSIVE Alone(_, _)
Alone(id, h) ==
  IF h = <<>> THEN <<>>
  ELSE Collate(Alone(id, SubSeq(h, 1, Len(h) - 1)), Last(h)[1], Last(h)[2], id, 0)

\* The bytes and ids of a list of exchanges.
Payloads(exs) ==
  [k \in 1..Len(exs) |->
     <<exs[k].id, Bytes(exs[k].requestRaw), Bytes(exs[k].responseRaw)>>]

\* The exchanges that were not created for a session (the screenshot).
Synthetic == SelectSeq(exchanges, LAMBDA e : e.id \notin Sessions)

\* C4: sessions do not interfere: whatever the interleaving, the exchanges of
\* each session, in order and with their bytes, are those that ingesting that
\* session's chunks alone produces, and the number of exchanges created is the
\* sum over the sessions.
C4_SessionsDoNotInterfere ==
  /\ \A id \in Sessions : Payloads(ForSession(id)) = Payloads(Alone(id, sent[id]))
  /\ Len(exchanges) - Len(Synthetic)
       = SumOver([id \in Sessions |-> Len(Alone(id, sent[id]))], Sessions)

\* C4 witness: the chunks of two sessions were interleaved, each session
\* having a chunk delivered between two chunks of the other.
C4_Witness ==
  /\ Delivered = 4
  /\ \A id \in Sessions : Len(sent[id]) = 2 /\ Len(ForSession(id)) >= 1
  /\ \E a, b \in Sessions :
       /\ a # b
       /\ sent[a][1][2] = Chunk(1) /\ sent[b][1][2] = Chunk(2)
       /\ sent[a][2][2] = Chunk(3) /\ sent[b][2][2] = Chunk(4)


\* Sequence a is a prefix of sequence b.
IsPrefix(a, b) == Len(a) <= Len(b) /\ SubSeq(b, 1, Len(a)) = a

\* Every exchange and every byte of store `old` is still in store `new`.
Retained(old, new) ==
  /\ Len(old) <= Len(new)
  /\ \A k \in 1..Len(old) :
       /\ new[k].id = old[k].id
       /\ IsPrefix(Bytes(old[k].requestRaw), Bytes(new[k].requestRaw))
       /\ IsPrefix(Bytes(old[k].responseRaw), Bytes(new[k].responseRaw))

\* C5: once an ingest call has left totalSize >= maxSize while the state was
\* CAPTURE, no further pipeline step is started, and every exchange and byte
\* ingested up to that point stays in the store, until capture() returns and
\* after.
C5_NoStepAfterBudgetReached ==
  /\ [](breachAt # <<>> =>
          /\ Len(stepsStarted) = breachAt[1].started
          /\ Retained(breachAt[1].exchanges, exchanges))
  /\ [][breachAt # <<>> => stepsStarted' = stepsStarted]_vars

\* C5 witness: capture() returned after a breach that left steps of the
\* pipeline unstarted, with data in the store at the breach.
C5_Witness ==
  /\ pc = "done"
  /\ breachAt # <<>>
  /\ breachAt[1].exchanges # <<>>
  /\ Len(stepsStarted) < Len(Steps(options))
  /\ totalSize >= options.maxSize

\* Number of log entries that announce the closing of the browser.
ClosingLogs(l) ==
  Len(SelectSeq(l, LAMBDA e : e.msg = "Closing browser and proxy server."))

\* setup() resolved in this run.
SetupSucceeded == pc \in {"step", "teardown", "done"}

\* C6: in a run whose setup succeeded the browser is closed exactly once,
\* whether teardown is called from the end of the pipeline alone or from the
\* assembler and from the end of the pipeline: never twice, and once when
\* capture() has returned.
C6_ReleaseExactlyOnce ==
  /\ closeCalls <= 1
  /\ ClosingLogs(logs) = closeCalls
  /\ teardownCalls.assembler <= 1
  /\ teardownCalls.pipeline <= 1
  /\ SetupSucceeded /\ pc = "done" =>
       closeCalls = 1 /\ teardownCalls.pipeline = 1

\* C6 witness: capture() returned after teardown was called twice, by the
\* assembler and by the end of the pipeline.
C6_Witness ==
  /\ pc = "done"
  /\ teardownCalls.assembler = 1
  /\ teardownCalls.pipeline = 1
  /\ closeCalls = 1

\* C7: the state only moves forward along INIT, SETUP, CAPTURE, TEARDOWN,
\* COMPLETE, and a call of teardown while the state is TEARDOWN changes
\* nothing: no second close, no log entry of teardown, no new state but the
\* COMPLETE that capture() sets after it.
C7_StateMovesForward ==
  [][/\ state' >= state
     /\ state' \in {INIT, SETUP, CAPTURE, TEARDOWN, COMPLETE}
     /\ (state = TEARDOWN /\ teardownCalls' # teardownCalls) =>
          /\ closeCalls' = closeCalls
          /\ browser' = browser
          /\ ClosingLogs(logs') = ClosingLogs(logs)
          /\ state' \in {TEARDOWN, COMPLETE}]_vars

\* C7 witness: the state went all the way to COMPLETE through a teardown
\* started by the assembler, the pipeline's call of teardown found TEARDOWN,
\* and a chunk arrived after that.
C7_Witness ==
  /\ state = COMPLETE
  /\ teardownCalls = [assembler |-> 1, pipeline |-> 1]
  /\ breachAt # <<>>
  /\ StoreBytes(exchanges) > StoreBytes(breachAt[1].exchanges)
  /\ totalSize >= options.maxSize

\* How far a run whose setup succeeded has come, and what it has returned.
EndsOnlyComplete ==
  /\ pc = "done" =>
       /\ state = COMPLETE
       /\ returned = COMPLETE
       /\ teardownCalls.pipeline = 1
  /\ pc \in {"step", "teardown"} =>
       /\ state \in {CAPTURE, TEARDOWN}
       /\ returned = Undefined
       /\ teardownCalls.pipeline = (IF pc = "teardown" THEN 1 ELSE 0)
  /\ state \in {COMPLETE, PARTIAL, ERROR} => pc = "done"

\* C8: a run whose setup succeeded calls teardown once after the step loop,
\* whether the loop ran all steps or was cut short, then sets the state to
\* COMPLETE and returns COMPLETE; until then the state is CAPTURE or TEARDOWN
\* and nothing is returned, and every such run gets there.
C8_EndsComplete ==
  /\ []EndsOnlyComplete
  /\ (pc = "step") ~> (pc = "done" /\ state = COMPLETE /\ returned = COMPLETE)

\* C8 witness: capture() returned COMPLETE after a loop of three steps that
\* was cut short after the first.
C8_Witness ==
  /\ pc = "done"
  /\ returned = COMPLETE
  /\ Len(stepsStarted) = 1
  /\ Len(Steps(options)) = 3
  /\ breachAt # <<>>

\* Number of log entries that report step k as failed.
FailedLogs(l, k) ==
  Len(SelectSeq(l, LAMBDA e : e.msg = "failed" /\ e.step = k /\ e.warn))

\* C9: steps are started one at a time and in pipeline order, step k+1 only
\* after step k settled; and when the budget is not breached, whichever steps
\* fail, every step of the pipeline is started exactly once, every failure is
\* logged once, and capture() returns COMPLETE.
C9_StepFailuresAreNotFatal ==
  /\ \A k \in 1..Len(stepsStarted) : stepsStarted[k] = k - 1
  /\ Len(stepsStarted) <= Len(Steps(options))
  /\ Len(stepsStarted) <= Len(stepOutcomes) + 1
  /\ pc = "step" => Len(stepsStarted) = Len(stepOutcomes) + 1 /\ i = Last(stepsStarted)
  /\ pc \in {"teardown", "done"} => Len(stepsStarted) = Len(stepOutcomes)
  /\ breachAt = <<>> =>
       \A k \in 1..Len(stepOutcomes) :
         FailedLogs(logs, k) = (IF stepOutcomes[k] = "fail" THEN 1 ELSE 0)
  /\ (breachAt = <<>> /\ pc \in {"teardown", "done"}) =>
       Len(stepsStarted) = Len(Steps(options))
  /\ (breachAt = <<>> /\ pc = "done") => returned = COMPLETE /\ state = COMPLETE

\* C9 witness: a pipeline of three steps, the first and the third of which
\* failed, ran to its end and capture() returned COMPLETE.
C9_Witness ==
  /\ pc = "done"
  /\ breachAt = <<>>
  /\ returned = COMPLETE
  /\ stepOutcomes = <<"fail", "ok", "fail">>
  /\ FailedLogs(logs, 1) = 1
  /\ FailedLogs(logs, 3) = 1


\* C10: a call of the exporter on a capture whose state is not PARTIAL or
\* COMPLETE (INIT, SETUP, CAPTURE, TEARDOWN, ERROR) throws, builds no
\* container and leaves the capture unchanged; only a call that finds PARTIAL
\* or COMPLETE goes on.
C10_EncodeNeedsFinishedCapture ==
  /\ [](wacz.status \in {"encoding", "done"} => wacz.found \in {PARTIAL, COMPLETE})
  /\ [](wacz.status = "error" =>
          /\ wacz.found \notin {PARTIAL, COMPLETE}
          /\ wacz.warc = <<>> /\ wacz.files = <<>> /\ wacz.pages = <<>>)
  /\ [][(wacz.status = "none" /\ wacz' # wacz) =>
          /\ wacz'.found = state
          /\ wacz'.status = (IF state \in {PARTIAL, COMPLETE} THEN "encoding" ELSE "error")
          /\ UNCHANGED captureVars]_vars

\* C10 witness: the exporter was called during teardown, on a capture that
\* holds data, and threw.
C10_Witness ==
  /\ wacz.status = "error"
  /\ wacz.found = TEARDOWN
  /\ state = TEARDOWN
  /\ exchanges # <<>>


\* The indexes of the generated exchanges marked as entry points.
MarkedEntryPoints ==
  {k \in 1..Len(generatedExchanges) : generatedExchanges[k].isEntryPoint = TRUE}

\* The n-th smallest element of a set of numbers.
Nth(S, n) == CHOOSE k \in S : Cardinality({m \in S : m <= k}) = n

\* C12: the page list encode produces is, in this order, the first exchange
\* of the store (present exactly when the store is not empty), then every
\* generated exchange whose isEntryPoint is true, in the order generated;
\* generated exchanges that are not entry points and exchanges other than the
\* first never appear in it.
C12_PageListIsEntryPoints ==
  [][(wacz.status = "encoding" /\ wacz'.status = "done") =>
       LET pages == wacz'.pages
           first == IF exchanges = <<>> THEN 0 ELSE 1
       IN /\ Len(pages) = first + Cardinality(MarkedEntryPoints)
          /\ first = 1 => pages[1] = exchanges[1]
          /\ \A n \in 1..Cardinality(MarkedEntryPoints) :
               pages[first + n] = generatedExchanges[Nth(MarkedEntryPoints, n)]
          /\ \A p \in 1..Len(pages) :
               /\ \A k \in 2..Len(exchanges) : pages[p] # exchanges[k]
               /\ \A k \in 1..Len(generatedExchanges) :
                    generatedExchanges[k].isEntryPoint = FALSE =>
                      pages[p] # generatedExchanges[k]]_vars

\* C12 witness: a store of two exchanges and three generated exchanges, one of
\* them no entry point, were encoded into a page list of three pages.
C12_Witness ==
  /\ wacz.status = "done"
  /\ Len(exchanges) = 2
  /\ Len(generatedExchanges) = 3
  /\ Len(wacz.pages) = 3
  /\ wacz.pages[1] = exchanges[1]
  /\ wacz.pages[2].url = "file:///b"
  /\ wacz.pages[3].url = "file:///c"


\* The states in which teardown has begun.
TeardownBegun == {TEARDOWN, COMPLETE, PARTIAL, ERROR}

\* C13 as stated: after teardown has begun (state TEARDOWN, COMPLETE, PARTIAL
\* or ERROR) the exchanges are no longer mutated: no exchange is added to the
\* store and no exchange's request or response bytes change.
C13_NoMutationAfterTeardown ==
  [][(state \in TeardownBegun) => exchanges' = exchanges]_vars

\* C13 amended: after teardown has begun the exchanges are still mutated,
\* but only by appending: by an ingest call, which appends its chunk to an
\* exchange or adds an exchange, or by the screenshot step that was running
\* when teardown began, which adds its exchange; no exchange is removed and no
\* byte already stored changes.
C13_OnlyAppendsAfterTeardown ==
  [][(state \in TeardownBegun) =>
       /\ Retained(exchanges, exchanges')
       /\ exchanges' # exchanges =>
            \/ Delivered' = Delivered + 1
            \/ /\ pc = "step"
               /\ Steps(options)[i + 1] = "screenshot"
               /\ Len(exchanges') = Len(exchanges) + 1
               /\ Last(exchanges').id \notin Sessions]_vars

\* C13 witness: after capture() returned COMPLETE, a chunk was appended to an
\* exchange that the store already held when the budget was reached, and a
\* further exchange was added.
C13_Witness ==
  /\ state = COMPLETE
  /\ breachAt # <<>>
  /\ Len(exchanges) > Len(breachAt[1].exchanges)
  /\ \E k \in 1..Len(breachAt[1].exchanges) :
       StoreBytes(<<exchanges[k]>>) > StoreBytes(<<breachAt[1].exchanges[k]>>)


\* C14: if acquiring the browser and proxy resources fails during SETUP,
\* capture() propagates the error to its caller (it rejects and returns
\* nothing), no pipeline step begins, the state never becomes CAPTURE or
\* COMPLETE, and a later encode of that capture fails.
C14_SetupFailurePropagates ==
  /\ [](pc = "failed" =>
          /\ returned = Undefined
          /\ stepsStarted = <<>>
          /\ stepOutcomes = <<>>
          /\ state = SETUP
          /\ wacz.status \in {"none", "error"})
  /\ [][(pc = "failed") =>
          /\ pc' = "failed"
          /\ wacz' # wacz => wacz'.status = "error" /\ wacz'.found = SETUP]_vars

\* C14 witness: setup failed after the proxy had delivered a chunk, and an
\* encode of the capture threw, having found it in state SETUP.
C14_Witness ==
  /\ pc = "failed"
  /\ Delivered > 0
  /\ state = SETUP
  /\ wacz.status = "error"
  /\ wacz.found = SETUP


\* The chunks whose numbers are in S, concatenated in arrival order.
RECURSIVE ChunksInOrder(_)
ChunksInOrder(S) ==
  IF S = {} THEN <<>>
  ELSE LET n == CHOOSE m \in S : \A k \in S : m <= k
       IN Chunk(n) \o ChunksInOrder(S \ {n})

\* The numbers of the chunks that have bytes in buffer b (the bytes of the
\* n-th chunk are all n).
ChunksOf(b) == {b[j] : j \in 1..Len(b)}

\* The n-th chunk was delivered for session id in direction type.
DeliveredAs(n, id, type) ==
  \E j \in 1..Len(sent[id]) : sent[id][j] = <<type, Chunk(n)>>

\* C16: for every exchange and each direction, the raw buffer equals the
\* concatenation, in arrival order, of exactly the chunks that ingest routed to
\* that exchange and direction: every buffer is a sequence of whole chunks in
\* arrival order, every chunk delivered is in exactly one buffer, of its own
\* session and direction, so that a later chunk never replaces or reorders
\* earlier bytes; and ingest returns the chunk it was given, unchanged.
C16_BuffersAreChunksInArrivalOrder ==
  /\ \A k \in 1..Len(exchanges), type \in {"request", "response"} :
       LET b == Bytes(RawOf(type, exchanges[k]))
       IN /\ b = ChunksInOrder(ChunksOf(b))
          /\ \A n \in ChunksOf(b) : DeliveredAs(n, exchanges[k].id, type)
  /\ \A n \in 1..Delivered :
       Cardinality({<<k, type>> \in (1..Len(exchanges)) \X {"request", "response"} :
                      n \in ChunksOf(Bytes(RawOf(type, exchanges[k])))}) = 1
  /\ forwarded = (IF Delivered = 0 THEN Undefined ELSE Chunk(Delivered))

\* C16 witness: the request buffer of an exchange holds the first and the
\* third chunk, the second having gone elsewhere, and the call for the fourth
\* chunk returned it.
C16_Witness ==
  /\ \E k \in 1..Len(exchanges) : exchanges[k].requestRaw = Chunk(1) \o Chunk(3)
  /\ Delivered = 4
  /\ forwarded = Chunk(4)


\* What identifies an exchange: the session it was created for and the time
\* of its creation.
Identity(ex) == <<ex.id, ex.date>>

\* C17: in every reachable state totalSize equals the sum of the current
\* lengths of all raw request and response buffers of the exchanges in the
\* store; totalSize never decreases; and the store is append-only: an exchange
\* once created is never removed and never changes its position.
C17_TotalSizeIsStoreSize ==
  /\ [](totalSize = StoreBytes(exchanges))
  /\ [][/\ totalSize' >= totalSize
        /\ Len(exchanges') >= Len(exchanges)
        /\ Retained(exchanges, exchanges')
        /\ \A k \in 1..Len(exchanges) :
             Identity(exchanges'[k]) = Identity(exchanges[k])]_vars

\* C17 witness: a store of three exchanges, the second of them the one the
\* screenshot step added, which holds no raw bytes, and totalSize above the
\* budget.
C17_Witness ==
  /\ Len(exchanges) = 3
  /\ exchanges[2].id \notin Sessions
  /\ totalSize > options.maxSize
  /\ totalSize = StoreBytes(exchanges)


\* C18: whenever the state is COMPLETE, the resource release started by
\* teardown has finished: capture() does not set COMPLETE or return before
\* the browser close has completed, also in runs where teardown was first
\* called by the assembler on the budget breach and the call at the end of the
\* pipeline is the no-op.
C18_CompleteMeansReleased ==
  (state = COMPLETE \/ pc = "done" \/ returned # Undefined) =>
    (browser = "closed" /\ proxy = "closed")


\* C20: no pipeline step begins while the budget is already reached: at every
\* start of a step, totalSize < maxSize, also in runs where the proxy, which
\* listens from SETUP on, delivered chunks before the state became CAPTURE.
C20_NoStepStartsOverBudget ==
  [][Len(stepsStarted') > Len(stepsStarted) => totalSize' < options.maxSize]_vars


\* The raw buffers present in a store: the (exchange, direction) pairs whose
\* buffer was assigned.
PresentRaw(exs) ==
  {<<k, type>> \in (1..Len(exs)) \X {"request", "response"} :
     RawOf(type, exs[k]) # Undefined}

\* C15: with includeRaw set, every raw request buffer and every raw response
\* buffer present in the store is stored in the container as its own payload:
\* distinct (exchange, direction) pairs get distinct paths, so the number of
\* raw payloads equals the number of present raw buffers and each payload
\* equals its buffer, also for two exchanges that share a session id.
C15_EveryRawBufferHasItsPayload ==
  [][(wacz.status = "encoding" /\ wacz'.status = "done" /\ wacz.includeRaw) =>
       LET present == PresentRaw(exchanges)
           files == wacz'.files
       IN /\ \A v \in present, w \in present :
               v # w => RawPath(v[2], exchanges[v[1]]) # RawPath(w[2], exchanges[w[1]])
          /\ Cardinality(DOMAIN files) = Cardinality(present)
          /\ \A w \in present :
               /\ RawPath(w[2], exchanges[w[1]]) \in DOMAIN files
               /\ files[RawPath(w[2], exchanges[w[1]])] = RawOf(w[2], exchanges[w[1]])]_vars


\* The bytes record r of the primary record file holds for a direction.
RecordBytes(r, type) == IF type = "request" THEN r.request ELSE r.response

\* The path the exporter gives the raw payload of a record's exchange.
RecordPath(r, type) == <<"raw", type, r.date, r.id>>

\* Container w was built from one store: its page list starts with the
\* exchange of its first record, and its raw payloads, when it has any, are
\* the bytes of its records.
OneSnapshot(w, store) ==
  /\ Len(w.warc) = Len(store)
  /\ w.warc # <<>> =>
       /\ w.pages # <<>>
       /\ Identity(w.pages[1]) = <<w.warc[1].id, w.warc[1].date>>
       /\ \A type \in {"request", "response"} :
            Bytes(RawOf(type, w.pages[1])) = RecordBytes(w.warc[1], type)
  /\ w.includeRaw =>
       /\ \A k \in 1..Len(w.warc), type \in {"request", "response"} :
            RecordBytes(w.warc[k], type) # <<>> =>
              RecordPath(w.warc[k], type) \in DOMAIN w.files
       /\ \A p \in DOMAIN w.files :
            \E k \in 1..Len(w.warc), type \in {"request", "response"} :
              /\ RecordPath(w.warc[k], type) = p
              /\ RecordBytes(w.warc[k], type) = w.files[p]

\* C19: one encode call reads a consistent snapshot of the capture: the
\* exchanges and bytes behind the primary record file, the raw payloads and
\* the page list of the container it produces all correspond to the same
\* store contents, also when chunks are ingested while the call is in
\* progress.
C19_EncodeReadsOneSnapshot ==
  [][(wacz.status = "encoding" /\ wacz'.status = "done") =>
       OneSnapshot(wacz', exchanges)]_vars


\* decode(container): the exchange list from the records of the primary
\* record file, in their order, the bytes of a direction taken from the raw
\* payload at the exchange's path when the container has one and from the
\* record otherwise; the generated exchanges from the pages that are not the
\* page of a record; the provenance from the extras.
decode(w) ==
  LET raw(r, type) ==
        IF RecordPath(r, type) \in DOMAIN w.files
        THEN w.files[RecordPath(r, type)]
        ELSE IF RecordBytes(r, type) = <<>> THEN Undefined
             ELSE RecordBytes(r, type)
  IN [exchanges |->
        [k \in 1..Len(w.warc) |->
           [id |-> w.warc[k].id, date |-> w.warc[k].date,
            requestRaw |-> raw(w.warc[k], "request"),
            responseRaw |-> raw(w.warc[k], "response")]],
      generatedExchanges |->
        SelectSeq(w.pages, LAMBDA p : "isEntryPoint" \in DOMAIN p),
      provenanceInfo |-> w.extras]

====
